---- MODULE Spec2Model ----
(***************************************************************************)
(* Model of the cocoon-cloud SDK core:                                     *)
(*   - CocoonAPI (src/src/lib/cocoon-api.ts): the static session holder,   *)
(*     its credential store and the authorized request path;               *)
(*   - Project (src/unnamed/part_000): the local snapshot of a remote      *)
(*     project, its signing keys, its cached config document and the       *)
(*     polling loop refreshUntilCompleted.                                 *)
(* The specifications share the variables:                                 *)
(*   Spec        the session (CocoonAPI) with interleaved requests,        *)
(*   SpecProject the Project operations with interleaved remote calls,     *)
(*   SpecPoll    one run of refreshUntilCompleted against a clock,         *)
(*   SpecConfig  the property setters, the config document cache and the   *)
(*               methods that end in init,                                 *)
(*   SpecRoundTrip the config document cache with updateConfigXml,         *)
(*   SpecFailure remote calls of Project that fail, then one polling run.  *)
(* Every await of the source is a suspension point: an operation is split  *)
(* into the synchronous segment before the await and the one after it.     *)
(***************************************************************************)
EXTENDS Integers, Sequences, FiniteSets, Bags, TLC

\* ------------------------------------------------------------------ bounds
MaxTime == 2
NumReq == 2
MaxIssued == 2
NumTasks == 2
NumPayloads == 3
MaxLatencySteps == 2
MaxJitter == 1

\* ----------------------------------------------------------- session state
VARIABLES
  credentials,   \* CocoonAPI._credentials: <<>> (undefined) or <<store>>
  now,           \* the wall clock (new Date()), in seconds
  req,           \* per slot, where a call of CocoonAPI.request stands
  issued,        \* token pairs the authentication endpoint has handed out
  closed,        \* history: closeAPIAccess ran and no setupAPIAccess call since
  last           \* what the step just taken did, when it ran code of request()

sessionVars == <<credentials, now, req, issued, closed, last>>

\* ----------------------------------------------------------- project state
VARIABLES
  proj,          \* the fields of the Project object (the local snapshot)
  configXML,     \* Project.configXML: <<>> (null) or <<document>>
  task,          \* the bag of Project method calls suspended at a remote call
  pev            \* what the step just taken did, when it ran code of Project

projectVars == <<proj, configXML, task, pev>>

\* ----------------------------------------------------------- polling state
VARIABLES
  time,          \* Date.now(), in milliseconds
  poll           \* the one call of refreshUntilCompleted: where it stands

pollVars == <<time, poll>>

\* ------------------------------------------------- config document history
VARIABLES
  burst          \* history: the property setters called back to back, and how
                 \* many of their document fetches have been answered

configVars == <<burst>>

vars == <<credentials, now, req, issued, closed, last, proj, configXML, task, pev,
          time, poll, burst>>

Reqs == 1..NumReq

\* JavaScript's undefined, as a token value.
Undef == "undefined"

\* An optional number: <<>> is undefined, <<n>> is n.
None == <<>>
Some(n) == <<n>>

\* A Date: valid dates carry their instant, an Invalid Date compares false.
InvalidDate == [valid |-> FALSE, t |-> 0]
DateAt(t) == [valid |-> TRUE, t |-> t]

\* Date comparison d > new Date(): false whenever d is an Invalid Date.
DateAfter(d, t) == d.valid /\ d.t > t

\* The token pair number k of the authentication endpoint.
SrvAccess(k) == "sa" \o ToString(k)
SrvRefresh(k) == "sr" \o ToString(k)

\* What callers pass to setupAPIAccess.
UserAccessTokens == {"", "ua"}
UserRefreshTokens == {"ur"}
UserExpirations == {None, Some(1)}

\* ------------------------------------------------- the credential store
\* MemoryCredentialStorage (the backend setupAPIAccess installs under Node),
\* by the ICredentialStorage contract CocoonAPI uses: setAccessToken,
\* setRefreshToken, getAccessToken, getRefreshToken, expireDate, logout.
NewStore == [accessToken |-> Undef, refreshToken |-> Undef, expireDate |-> InvalidDate]

setAccessToken(store, token, expiration) ==
  [store EXCEPT !.accessToken = token,
                !.expireDate = IF expiration = None THEN InvalidDate
                               ELSE DateAt(now + expiration[1])]

setRefreshToken(store, token) == [store EXCEPT !.refreshToken = token]

\* logout clears the tokens; whether it also clears the expiry is not known,
\* so both stores are possible results.
logout(store) ==
  { [store EXCEPT !.accessToken = Undef, !.refreshToken = Undef],
    [store EXCEPT !.accessToken = Undef, !.refreshToken = Undef,
                  !.expireDate = InvalidDate] }

\* ------------------------------------------------------------- CocoonAPI
HasCredentials == credentials # <<>>

Store == credentials[1]

\* checkAPIAccess(): !!getAccessToken() of the installed store, false without one.
Truthy(token) == token # Undef /\ token # ""

\* checkAPIAccess() that also wants the expiry instant to lie ahead.
checkAPIAccessUnexpired ==
  IF credentials # <<>>
  THEN Truthy(credentials[1].accessToken) /\ DateAfter(credentials[1].expireDate, now)
  ELSE FALSE

checkAPIAccess == IF HasCredentials THEN Truthy(Store.accessToken) ELSE FALSE

\* The value of _credentials after setupAPIAccess(accessToken, refreshToken, expiration).
SetupResult(accessToken, refreshToken, expiration) ==
  <<setRefreshToken(setAccessToken(NewStore, accessToken, expiration), refreshToken)>>

\* The record of a step that ran no code of CocoonAPI: kind names the method
\* a step ran ("setup", "close", "request"), the answer it handled
\* ("refreshed", "response"), or "none".
NoEvent ==
  [kind |-> "none", r |-> 0, addCredentials |-> FALSE, hadStore |-> FALSE,
   closed |-> FALSE, expired |-> FALSE, refreshes |-> 0, refreshToken |-> Undef,
   outcome |-> "none", issuedAccess |-> Undef, calls |-> 0, header |-> <<>>,
   stale |-> FALSE, result |-> "pending"]

\* The condition of line 105 under which request() refreshes first.
NeedsRefresh == DateAfter(Store.expireDate, now)

\* The expiry instant of the store s has passed: expireDate <= now.
Expired(s) == s.expireDate.valid /\ s.expireDate.t <= now

\* Lines 110-116: attach "Bearer " + getAccessToken(), push status(), send.
SendWith(ev, creds) ==
  [ev EXCEPT !.header = <<creds[1].accessToken>>,
             !.stale = Expired(creds[1]),
             !.calls = @ + 1,
             !.result = "sent"]

\* setupAPIAccess called by the user of the SDK.
setupAPIAccess(accessToken, refreshToken, expiration) ==
  /\ credentials' = SetupResult(accessToken, refreshToken, expiration)
  /\ closed' = FALSE
  /\ last' = [NoEvent EXCEPT !.kind = "setup"]
  /\ UNCHANGED <<now, req, issued>>
  /\ UNCHANGED <<projectVars, pollVars, configVars>>

\* closeAPIAccess(): credentials.logout(). With no store installed the call
\* throws a TypeError and nothing changes.
closeAPIAccess ==
  /\ IF HasCredentials
     THEN /\ \E s \in logout(Store) : credentials' = <<s>>
          /\ closed' = TRUE
     ELSE UNCHANGED <<credentials, closed>>
  /\ last' = [NoEvent EXCEPT !.kind = "close"]
  /\ UNCHANGED <<now, req, issued>>
  /\ UNCHANGED <<projectVars, pollVars, configVars>>

\* request() with the else branch of lines 111-113 lost: without a store the
\* call goes out with no Authorization header.
RequestEventNoThrow(ev, addCredentials) ==
  IF ~addCredentials \/ ~HasCredentials
  THEN [ev EXCEPT !.calls = 1, !.result = "sent"]
  ELSE IF NeedsRefresh
       THEN [ev EXCEPT !.refreshes = 1,
                       !.refreshToken = Store.refreshToken,
                       !.calls = 1]
       ELSE SendWith(ev, credentials)

\* What request(options, plugins, addCredentials) does up to its first await
\* or its send: the event, given the record of the call's circumstances.
RequestEvent(ev, addCredentials) ==
  IF ~addCredentials
  THEN [ev EXCEPT !.calls = 1, !.result = "sent"]
  ELSE IF HasCredentials
       THEN IF NeedsRefresh
            THEN [ev EXCEPT !.refreshes = 1,
                            !.refreshToken = Store.refreshToken,
                            !.calls = 1]
            ELSE SendWith(ev, credentials)
       ELSE [ev EXCEPT !.result = "unauthenticated"]

\* Where the call stands after that segment.
PcAfter(ev) ==
  CASE ev.result = "sent" -> "sent"
    [] ev.result = "pending" -> "refreshing"
    [] OTHER -> "idle"

request(r, addCredentials) ==
  /\ req[r] = "idle"
  /\ LET ev == RequestEvent([NoEvent EXCEPT !.kind = "request", !.r = r,
                                            !.addCredentials = addCredentials,
                                            !.hadStore = HasCredentials,
                                            !.closed = closed,
                                            !.expired = HasCredentials /\ Expired(Store)],
                            addCredentials)
     IN  /\ last' = ev
         /\ req' = [req EXCEPT ![r] = PcAfter(ev)]
  /\ UNCHANGED <<credentials, now, issued, closed>>
  /\ UNCHANGED <<projectVars, pollVars, configVars>>

\* The answers of the authentication endpoint to the GET of refreshAPIAccess.
\* popsicle resolves with any HTTP response; only the status() plugin, which
\* refreshAPIAccess does not use, turns a non-2xx response into a rejection.
\*   "ok"       2xx with a fresh token pair
\*   "non2xx"   a non-2xx response whose body holds no tokens
\*   "badbody"  a response parse("json") rejects
\*   "neterr"   a transport error
RefreshOutcomes == {"ok", "non2xx", "badbody", "neterr"}

\* The credentials after the then-callback of refreshAPIAccess (lines 57-60)
\* ran on the answer, or as they were when the promise rejected before it.
RefreshedCredentials(outcome, k) ==
  CASE outcome = "ok" -> SetupResult(SrvAccess(k), SrvRefresh(k), Some(1))
    [] outcome = "non2xx" -> SetupResult(Undef, Undef, None)
    [] OTHER -> credentials

\* refreshAPIAccess settles, and request() runs on after its await: the
\* then-callback and the continuation of request() run back to back, with no
\* other call of the SDK in between.
RefreshResponse(r, outcome) ==
  /\ req[r] = "refreshing"
  /\ outcome \in RefreshOutcomes
  /\ outcome = "ok" => issued < MaxIssued
  /\ LET k == issued + 1
         creds == RefreshedCredentials(outcome, k)
         ev0 == [NoEvent EXCEPT !.kind = "refreshed", !.r = r,
                                !.addCredentials = TRUE,
                                !.hadStore = HasCredentials,
                                !.closed = closed,
                                !.outcome = outcome,
                                !.issuedAccess = IF outcome = "ok" THEN SrvAccess(k) ELSE Undef]
         ev == IF outcome \in {"ok", "non2xx"}
               THEN SendWith(ev0, creds)
               ELSE [ev0 EXCEPT !.result = "refreshFailed"]
     IN  /\ credentials' = creds
         /\ issued' = IF outcome = "ok" THEN k ELSE issued
         /\ last' = ev
         /\ req' = [req EXCEPT ![r] = PcAfter(ev)]
  /\ UNCHANGED <<now, closed>>
  /\ UNCHANGED <<projectVars, pollVars, configVars>>

\* The outbound call settles: "failed" is a transport error or a non-2xx
\* response, which the status() plugin of line 115 turns into a rejection.
\* Either way the result goes to the caller and the session is not touched.
RequestOutcomes == {"ok", "failed"}

RequestResponse(r, outcome) ==
  /\ req[r] = "sent"
  /\ outcome \in RequestOutcomes
  /\ req' = [req EXCEPT ![r] = "idle"]
  /\ last' = [NoEvent EXCEPT !.kind = "response", !.r = r, !.result = outcome]
  /\ UNCHANGED <<credentials, now, issued, closed>>
  /\ UNCHANGED <<projectVars, pollVars, configVars>>

\* Time passes.
Tick ==
  /\ now < MaxTime
  /\ now' = now + 1
  /\ last' = NoEvent
  /\ UNCHANGED <<credentials, req, issued, closed>>
  /\ UNCHANGED <<projectVars, pollVars, configVars>>

SessionInit ==
  /\ credentials = <<>>
  /\ now = 0
  /\ req = [r \in Reqs |-> "idle"]
  /\ issued = 0
  /\ closed = FALSE
  /\ last = NoEvent

\* ================================================================ Project
Platforms == {"android", "ios"}

\* The Status enumeration (e-status); isCompiling names Compiling and Waiting.
Statuses == {"waiting", "compiling", "completed", "queued", "error"}

KeyIds == {1, 2}

\* The id of the one project at hand.
ProjectId == <<"id", 1>>

\* new Date(x)
ToDate(x) == [time |-> x]

\* An IProjectData payload: every scalar carries the payload's number g, status
\* maps the payload's platforms to their state, keys maps platforms to key data.
ProjectData(g, status, keys) ==
  [id |-> ProjectId,
   title |-> <<"title", g>>,
   package |-> <<"package", g>>,
   version |-> <<"version", g>>,
   source |-> <<"source", g>>,
   origin |-> <<"origin", g>>,
   date_created |-> 100 + g,
   date_updated |-> 200 + g,
   date_compiled |-> 300 + g,
   error |-> <<"error", g>>,
   platforms |-> DOMAIN status,
   status |-> status,
   keys |-> keys]

PlatformIndex(p) == IF p = "android" THEN 1 ELSE 2

StatusSeq == <<"waiting", "compiling", "completed", "queued", "error">>

\* The payloads the remote answers with in SpecProject: payload g differs from
\* payload g+1 in every scalar, in its platforms and in its keys.
StatusOf(g) ==
  [p \in {q \in Platforms : (g + PlatformIndex(q)) % 3 # 0} |->
     StatusSeq[((g + 2 * PlatformIndex(p)) % 5) + 1]]

KeysOf(g) ==
  [p \in {q \in Platforms : (g + PlatformIndex(q)) % 2 = 0} |-> (g % 2) + 1]

PayloadOf(g) == ProjectData(g, StatusOf(g), KeysOf(g))

Payloads == 1..NumPayloads

\* new Compilation(projectData, platform): the platform's state in the payload.
Compilation(projectData, platform) ==
  [platform |-> platform, status |-> projectData.status[platform]]

\* new SigningKey(data, platform)
SigningKey(data, platform) == [id |-> data, platform |-> platform]

\* The keys callers hold and pass to assignSigningKey.
SigningKeys == { SigningKey(k, p) : k \in KeyIds, p \in Platforms }

\* new XMLSugar(xml): a document built from the text xml, not edited yet.
XMLSugar(xml) == [source |-> xml, edits |-> <<>>]

Xmls == {"xmlA", "xmlB"}

\* A slot of an object map: <<>> is undefined, <<v>> holds v.
Slot(m, k) == IF k \in DOMAIN m THEN m[k] ELSE <<>>

\* m[k] = v on a JavaScript object.
Put(m, k, v) == [x \in DOMAIN m \cup {k} |-> IF x = k THEN v ELSE m[x]]

\* The object a constructor starts from: no field set, no map yet.
BlankProject ==
  [proj |->
     [id |-> <<"undefined", 0>>, name |-> <<"undefined", 0>>,
      bundleID |-> <<"undefined", 0>>, version |-> <<"undefined", 0>>,
      sourceURL |-> <<"undefined", 0>>, origin |-> <<"undefined", 0>>,
      dateCreated |-> ToDate(0), dateUpdated |-> ToDate(0), dateCompiled |-> ToDate(0),
      errors |-> <<"undefined", 0>>, compilations |-> <<>>, keys |-> <<>>],
   configXML |-> <<>>]

\* The Project object as it stands.
This == [proj |-> proj, configXML |-> configXML]

\* init() that fills the maps it finds instead of starting from {}.
initMerging(self, projectData) ==
  [proj |->
     [id |-> projectData.id,
      name |-> projectData.title,
      bundleID |-> projectData.package,
      version |-> projectData.version,
      sourceURL |-> projectData.source,
      origin |-> projectData.origin,
      dateCreated |-> ToDate(projectData.date_created),
      dateUpdated |-> ToDate(projectData.date_updated),
      dateCompiled |-> ToDate(projectData.date_compiled),
      errors |-> projectData.error,
      compilations |->
        [p \in DOMAIN self.proj.compilations \cup projectData.platforms |->
           IF p \in projectData.platforms THEN Compilation(projectData, p)
           ELSE self.proj.compilations[p]],
      keys |->
        [p \in DOMAIN self.proj.keys \cup DOMAIN projectData.keys |->
           IF p \in DOMAIN projectData.keys
           THEN <<SigningKey(projectData.keys[p], p)>>
           ELSE self.proj.keys[p]]],
   configXML |-> <<>>]

\* init(projectData) on the object self: its fields and its document cache
\* afterwards. Every field is assigned; nothing of self is read.
init(self, projectData) ==
  [proj |->
     [id |-> projectData.id,
      name |-> projectData.title,
      bundleID |-> projectData.package,
      version |-> projectData.version,
      sourceURL |-> projectData.source,
      origin |-> projectData.origin,
      dateCreated |-> ToDate(projectData.date_created),
      dateUpdated |-> ToDate(projectData.date_updated),
      dateCompiled |-> ToDate(projectData.date_compiled),
      errors |-> projectData.error,
      compilations |->
        [p \in projectData.platforms |-> Compilation(projectData, p)],
      keys |->
        [p \in DOMAIN projectData.keys |-> <<SigningKey(projectData.keys[p], p)>>]],
   configXML |-> <<>>]

\* isCompiling() that takes a queued compilation for an ongoing one.
isCompilingQueued(compilations) ==
  \E p \in DOMAIN compilations :
    compilations[p].status \in {"compiling", "waiting", "queued"}

\* isCompiling() over a compilations map.
isCompiling(compilations) ==
  \E p \in DOMAIN compilations :
    compilations[p].status = "compiling" \/ compilations[p].status = "waiting"

\* A method call suspended at its remote call, with what it needs afterwards.
Call(op, platform, keyId, xml) ==
  [op |-> op, platform |-> platform, keyId |-> keyId, xml |-> xml]

\* The record of a step that ran no code of Project.
NoProjectEvent ==
  [kind |-> "none", op |-> "none", gen |-> 0, platform |-> "", keyId |-> 0, xml |-> ""]

\* The event of a step of the call c.
EventOf(kind, c, g) ==
  [kind |-> kind, op |-> c.op, gen |-> g, platform |-> c.platform,
   keyId |-> c.keyId, xml |-> c.xml]

\* At most NumTasks calls are in flight.
CanCall == BagCardinality(task) < NumTasks

Suspend(c) == task' = task (+) SetToBag({c})

Resume(c) == task' = task (-) SetToBag({c})

InFlight == BagToSet(task)

\* The methods that await one remote call and hand its payload to init.
InitOps == {"refresh", "updateZip", "updateURL", "updateRepository"}

\* A method of InitOps up to its await: the remote call is issued.
CallInitOp(op) ==
  /\ CanCall
  /\ Suspend(Call(op, "", 0, ""))
  /\ pev' = EventOf("call", Call(op, "", 0, ""), 0)
  /\ UNCHANGED <<proj, configXML>>

refresh == CallInitOp("refresh")

updateZip == CallInitOp("updateZip")

updateURL == CallInitOp("updateURL")

updateRepository == CallInitOp("updateRepository")

\* The same with the document cache left as init found it.
InitOpResolvedKeepsDocument(c, g) ==
  /\ c \in InFlight
  /\ c.op \in InitOps
  /\ proj' = init(This, PayloadOf(g)).proj
  /\ configXML' = configXML
  /\ Resume(c)
  /\ pev' = EventOf("resolved", c, g)

\* The remote call of a method of InitOps resolves with payload g: init runs.
InitOpResolved(c, g) ==
  /\ c \in InFlight
  /\ c.op \in InitOps
  /\ proj' = init(This, PayloadOf(g)).proj
  /\ configXML' = init(This, PayloadOf(g)).configXML
  /\ Resume(c)
  /\ pev' = EventOf("resolved", c, g)

\* updateConfigXml(xml) up to its await.
updateConfigXml(xml) ==
  /\ CanCall
  /\ Suspend(Call("updateConfigXml", "", 0, xml))
  /\ pev' = EventOf("call", Call("updateConfigXml", "", 0, xml), 0)
  /\ UNCHANGED <<proj, configXML>>

\* The same with line 227 only filling an empty cache: a document that is
\* cached stays.
UpdateConfigXmlResolvedKeepsDocument(c, g) ==
  /\ c \in InFlight
  /\ c.op = "updateConfigXml"
  /\ proj' = init(This, PayloadOf(g)).proj
  /\ configXML' = IF configXML # <<>> THEN configXML ELSE <<XMLSugar(c.xml)>>
  /\ Resume(c)
  /\ pev' = EventOf("resolved", c, g)

\* Its remote call resolves: init, then the cache holds a document of xml.
UpdateConfigXmlResolved(c, g) ==
  /\ c \in InFlight
  /\ c.op = "updateConfigXml"
  /\ proj' = init(This, PayloadOf(g)).proj
  /\ configXML' = <<XMLSugar(c.xml)>>
  /\ Resume(c)
  /\ pev' = EventOf("resolved", c, g)

\* assignSigningKey(signingKey) up to its await.
assignSigningKey(signingKey) ==
  /\ CanCall
  /\ Suspend(Call("assignSigningKey", signingKey.platform, signingKey.id, ""))
  /\ pev' = EventOf("call", Call("assignSigningKey", signingKey.platform, signingKey.id, ""), 0)
  /\ UNCHANGED <<proj, configXML>>

\* The map after line 296 written so that the new key replaces the whole map.
AssignedKeysOnly(keys, signingKey) ==
  [p \in {signingKey.platform} |-> <<signingKey>>]

\* The map after this._keys[signingKey.platform] = signingKey (line 296).
AssignedKeys(keys, signingKey) == Put(keys, signingKey.platform, <<signingKey>>)

\* Its remote call resolves: the key goes into the map.
AssignSigningKeyResolved(c) ==
  /\ c \in InFlight
  /\ c.op = "assignSigningKey"
  /\ proj' = [proj EXCEPT !.keys = AssignedKeys(@, SigningKey(c.keyId, c.platform))]
  /\ Resume(c)
  /\ pev' = EventOf("resolved", c, 0)
  /\ UNCHANGED configXML

\* removeSigningKey(platform) without the test of line 305: the remote removal
\* is issued whatever the slot holds.
removeSigningKeyUnchecked(platform) ==
  /\ CanCall
  /\ LET keyId == IF Slot(proj.keys, platform) # <<>>
                  THEN proj.keys[platform][1].id ELSE 0
     IN  /\ Suspend(Call("removeSigningKey", platform, keyId, ""))
         /\ pev' = EventOf("call", Call("removeSigningKey", platform, keyId, ""), 0)
  /\ UNCHANGED <<proj, configXML>>

\* removeSigningKey(platform) up to its await, or its throw when the slot of
\* the platform holds no key.
removeSigningKey(platform) ==
  /\ CanCall
  /\ IF Slot(proj.keys, platform) # <<>>
     THEN /\ Suspend(Call("removeSigningKey", platform, proj.keys[platform][1].id, ""))
          /\ pev' = EventOf("call",
                            Call("removeSigningKey", platform, proj.keys[platform][1].id, ""), 0)
     ELSE /\ task' = task
          /\ pev' = EventOf("threw", Call("removeSigningKey", platform, 0, ""), 0)
  /\ UNCHANGED <<proj, configXML>>

\* Its remote call resolves: this._keys[platform] = undefined.
RemoveSigningKeyResolved(c) ==
  /\ c \in InFlight
  /\ c.op = "removeSigningKey"
  /\ proj' = [proj EXCEPT !.keys = Put(@, c.platform, <<>>)]
  /\ Resume(c)
  /\ pev' = EventOf("resolved", c, 0)
  /\ UNCHANGED configXML

\* The same with the document cache emptied on the way.
RemoteCallRejectedClearsDocument(c) ==
  /\ c \in InFlight
  /\ Resume(c)
  /\ pev' = EventOf("rejected", c, 0)
  /\ configXML' = <<>>
  /\ UNCHANGED proj

\* The remote call a method awaits rejects: the method throws at its await.
RemoteCallRejected(c) ==
  /\ c \in InFlight
  /\ Resume(c)
  /\ pev' = EventOf("rejected", c, 0)
  /\ UNCHANGED <<proj, configXML>>

\* new Project(projectData)
ProjectInit ==
  /\ proj = init(BlankProject, PayloadOf(1)).proj
  /\ configXML = init(BlankProject, PayloadOf(1)).configXML
  /\ task = EmptyBag
  /\ pev = NoProjectEvent

\* ================================================= refreshUntilCompleted
\* The arguments callers pass (milliseconds).
Intervals == {50, 100}

MaxWaitTimes == {100, 200}

\* How long a remote refresh takes, and by how much a timer fires late.
Latencies == { 25 * k : k \in 0..MaxLatencySteps }

Jitters == 0..MaxJitter

\* Every state of the platforms a refresh can report.
StatusMaps == UNION { [S -> Statuses] : S \in SUBSET Platforms }

PollPayloads == { ProjectData(1, st, <<>>) : st \in StatusMaps }

IdlePoll ==
  [pc |-> "idle", limitTime |-> 0, interval |-> 0, refreshes |-> 0, ticks |-> 0,
   sleeps |-> 0, onSchedule |-> TRUE, allCompiling |-> TRUE, firstIdle |-> 0,
   result |-> "pending"]

\* The loop condition with <= for <.
LoopContinuesInclusive(compilations, t, limitTime) ==
  isCompiling(compilations) /\ t <= limitTime

\* The loop condition without the look at the compilations.
LoopContinuesBlind(compilations, t, limitTime) == t < limitTime

\* Line 277: while (this.isCompiling() && Date.now() < limitTime)
LoopContinues(compilations, t, limitTime) ==
  isCompiling(compilations) /\ t < limitTime

\* The check after the loop, the other way round.
ThrowsTimeLimitLate(t, limitTime) == t >= limitTime

\* Line 283: if (Date.now() < limitTime) throw
ThrowsTimeLimit(t, limitTime) == t < limitTime

\* refreshUntilCompleted(callback, interval, maxWaitTime) up to its first await.
refreshUntilCompleted(interval, maxWaitTime) ==
  /\ poll.pc = "idle"
  /\ poll' = [poll EXCEPT !.pc = "refreshing",
                          !.limitTime = time + maxWaitTime,
                          !.interval = interval]
  /\ UNCHANGED <<time, proj, configXML>>

\* The awaited refresh() resolves after latency: init, the callback, the loop
\* condition and, when the loop is left, the check of line 283. These run in
\* one synchronous segment, so lines 277 and 283 read the same instant.
PollRefreshResolved(projectData, latency) ==
  /\ poll.pc = "refreshing"
  /\ time' = time + latency
  /\ proj' = init(This, projectData).proj
  /\ configXML' = init(This, projectData).configXML
  /\ LET compiling == isCompiling(proj'.compilations)
         p1 == [poll EXCEPT !.refreshes = @ + 1,
                            !.ticks = @ + 1,
                            !.onSchedule = @ /\ latency = 0,
                            !.allCompiling = @ /\ compiling,
                            !.firstIdle = IF @ = 0 /\ ~compiling
                                          THEN poll.refreshes + 1 ELSE @]
     IN  IF LoopContinues(proj'.compilations, time', poll.limitTime)
         THEN poll' = [p1 EXCEPT !.pc = "sleeping"]
         ELSE poll' = [p1 EXCEPT !.pc = "done",
                                 !.result = IF ThrowsTimeLimit(time', poll.limitTime)
                                            THEN "timeout" ELSE "ok"]

\* The awaited refresh() rejects: refreshUntilCompleted throws that error.
PollRefreshRejected(latency) ==
  /\ poll.pc = "refreshing"
  /\ time' = time + latency
  /\ poll' = [poll EXCEPT !.pc = "done", !.result = "error",
                          !.onSchedule = @ /\ latency = 0]
  /\ UNCHANGED <<proj, configXML>>

\* Line 278: the timer fires, interval (and jitter) after it was set, and the
\* next refresh() is issued.
PollSleepElapsed(jitter) ==
  /\ poll.pc = "sleeping"
  /\ time' = time + poll.interval + jitter
  /\ poll' = [poll EXCEPT !.pc = "refreshing",
                          !.sleeps = @ + 1,
                          !.onSchedule = @ /\ jitter = 0]
  /\ UNCHANGED <<proj, configXML>>

PollInit ==
  /\ time = 0
  /\ poll = IdlePoll

\* ================================== property setters and the config document
\* The properties that have a setter, by the name of the field they write.
Fields == {"name", "bundleID", "version"}

\* The value callers assign through a setter.
SetValue == <<"user", 1>>

\* The value a field of a config.xml has when nobody set it.
StockValue == <<"stock", 0>>

\* What a config.xml says: which of the two documents it is, and the fields
\* that hold the value set by the caller.
Contents == [body : Xmls, set : SUBSET Fields]

\* The text of a config.xml with content c, in the one canonical form.
Render(c) ==
  c.body \o (IF "name" \in c.set THEN "+name" ELSE "")
         \o (IF "bundleID" \in c.set THEN "+bundleID" ELSE "")
         \o (IF "version" \in c.set THEN "+version" ELSE "")

\* What the text of a config.xml says.
Parse(text) == CHOOSE c \in Contents : Render(c) = text

\* xmlSugar.setName(value), setBundleId(value), setVersion(value): the edit is
\* kept in the document.
setField(doc, field, value) == [doc EXCEPT !.edits = Put(@, field, value)]

\* The value the document doc shows for field.
FieldOf(doc, field) ==
  IF field \in DOMAIN doc.edits THEN doc.edits[field]
  ELSE IF field \in Parse(doc.source).set THEN SetValue ELSE StockValue

\* xmlSugar.xml(): the text of the document, edits included.
xml(doc) ==
  Render([body |-> Parse(doc.source).body,
          set |-> { f \in Fields : FieldOf(doc, f) = SetValue }])

\* The texts the remote answers a fetch of config.xml with.
RemoteTexts == Xmls

\* The callers of getConfigXML: the three setters and the user of the SDK.
Getters == Fields \cup {"getConfigXML"}

\* A setter that writes the field only in the callback, once the document is
\* at hand.
setterDeferred(field, value) ==
  /\ IF configXML # <<>>
     THEN /\ configXML' = <<setField(configXML[1], field, value)>>
          /\ proj' = [proj EXCEPT ![field] = value]
          /\ task' = task
          /\ pev' = EventOf("cached", Call(field, "", 0, ""), 0)
     ELSE /\ CanCall
          /\ Suspend(Call(field, "", 0, ""))
          /\ pev' = EventOf("call", Call(field, "", 0, ""), 0)
          /\ UNCHANGED <<proj, configXML>>

\* set name(value), set bundleID(value), set version(value): getConfigXML()
\* runs up to its return or its await, the field is assigned, and with a
\* cached document the callback then edits it (in the microtask that follows).
setter(field, value) ==
  /\ IF configXML # <<>>
     THEN /\ configXML' = <<setField(configXML[1], field, value)>>
          /\ task' = task
          /\ pev' = EventOf("cached", Call(field, "", 0, ""), 0)
     ELSE /\ CanCall
          /\ Suspend(Call(field, "", 0, ""))
          /\ pev' = EventOf("call", Call(field, "", 0, ""), 0)
          /\ UNCHANGED configXML
  /\ proj' = [proj EXCEPT ![field] = value]

\* getConfigXML() called by the user of the SDK: the cached document, or the
\* fetch of config.xml.
getConfigXML ==
  /\ IF configXML # <<>>
     THEN /\ task' = task
          /\ pev' = EventOf("cached", Call("getConfigXML", "", 0, ""), 0)
     ELSE /\ CanCall
          /\ Suspend(Call("getConfigXML", "", 0, ""))
          /\ pev' = EventOf("call", Call("getConfigXML", "", 0, ""), 0)
  /\ UNCHANGED <<proj, configXML>>

\* The fetch of getConfigXML resolves with text (lines 148-150): the cache
\* holds a new document of it, which goes to the caller; a setter's callback
\* edits that document.
GetConfigXmlResolved(c, text) ==
  /\ c \in InFlight
  /\ c.op \in Getters
  /\ configXML' = <<IF c.op \in Fields
                    THEN setField(XMLSugar(text), c.op, SetValue)
                    ELSE XMLSugar(text)>>
  /\ Resume(c)
  /\ pev' = [EventOf("resolved", c, 0) EXCEPT !.xml = text]
  /\ UNCHANGED proj

\* No setter call under way.
NoBurst == [stage |-> 0, first |-> "", second |-> ""]

\* The history after a call of the setter of field: the first of a pair when
\* nothing is cached and no call is in flight, the second when it follows the
\* first at once.
BurstOnSet(field) ==
  IF task = EmptyBag /\ configXML = <<>>
  THEN [stage |-> 1, first |-> field, second |-> ""]
  ELSE IF burst.stage = 1 /\ field # burst.first
       THEN [stage |-> 2, first |-> burst.first, second |-> field]
       ELSE NoBurst

\* The history after the fetch of the call c was answered: stage 3 with one
\* of the pair's fetches answered, stage 4 with both.
BurstOnFetched(c) ==
  IF burst.stage \in {2, 3} /\ c.op \in {burst.first, burst.second}
  THEN [burst EXCEPT !.stage = @ + 1]
  ELSE NoBurst

ConfigInit == burst = NoBurst

Init == SessionInit /\ ProjectInit /\ PollInit /\ ConfigInit

Next ==
  \/ \E a \in UserAccessTokens, t \in UserRefreshTokens, e \in UserExpirations :
       setupAPIAccess(a, t, e)
  \/ closeAPIAccess
  \/ \E r \in Reqs, c \in BOOLEAN : request(r, c)
  \/ \E r \in Reqs, o \in RefreshOutcomes : RefreshResponse(r, o)
  \/ \E r \in Reqs, o \in RequestOutcomes : RequestResponse(r, o)
  \/ Tick

Spec == Init /\ [][Next]_vars

NextProject ==
  \/ refresh /\ UNCHANGED <<sessionVars, pollVars, configVars>>
  \/ updateZip /\ UNCHANGED <<sessionVars, pollVars, configVars>>
  \/ updateURL /\ UNCHANGED <<sessionVars, pollVars, configVars>>
  \/ updateRepository /\ UNCHANGED <<sessionVars, pollVars, configVars>>
  \/ \E c \in InFlight, g \in Payloads : InitOpResolved(c, g) /\ UNCHANGED <<sessionVars, pollVars, configVars>>
  \/ \E x \in Xmls : updateConfigXml(x) /\ UNCHANGED <<sessionVars, pollVars, configVars>>
  \/ \E c \in InFlight, g \in Payloads : UpdateConfigXmlResolved(c, g) /\ UNCHANGED <<sessionVars, pollVars, configVars>>
  \/ \E k \in SigningKeys : assignSigningKey(k) /\ UNCHANGED <<sessionVars, pollVars, configVars>>
  \/ \E c \in InFlight : AssignSigningKeyResolved(c) /\ UNCHANGED <<sessionVars, pollVars, configVars>>
  \/ \E p \in Platforms : removeSigningKey(p) /\ UNCHANGED <<sessionVars, pollVars, configVars>>
  \/ \E c \in InFlight : RemoveSigningKeyResolved(c) /\ UNCHANGED <<sessionVars, pollVars, configVars>>
  \/ \E c \in InFlight : RemoteCallRejected(c) /\ UNCHANGED <<sessionVars, pollVars, configVars>>

SpecProject == Init /\ [][NextProject]_vars

NextPoll ==
  \/ \E i \in Intervals, w \in MaxWaitTimes :
       refreshUntilCompleted(i, w) /\ UNCHANGED <<sessionVars, task, pev, configVars>>
  \/ \E d \in PollPayloads, l \in Latencies :
       PollRefreshResolved(d, l) /\ UNCHANGED <<sessionVars, task, pev, configVars>>
  \/ \E l \in Latencies : PollRefreshRejected(l) /\ UNCHANGED <<sessionVars, task, pev, configVars>>
  \/ \E j \in Jitters : PollSleepElapsed(j) /\ UNCHANGED <<sessionVars, task, pev, configVars>>

SpecPoll == Init /\ [][NextPoll]_vars

NextConfig ==
  \/ \E f \in Fields :
       setter(f, SetValue) /\ burst' = BurstOnSet(f) /\ UNCHANGED <<sessionVars, pollVars>>
  \/ getConfigXML /\ burst' = NoBurst /\ UNCHANGED <<sessionVars, pollVars>>
  \/ \E c \in InFlight, t \in RemoteTexts :
       GetConfigXmlResolved(c, t) /\ burst' = BurstOnFetched(c)
         /\ UNCHANGED <<sessionVars, pollVars>>
  \/ refresh /\ burst' = NoBurst /\ UNCHANGED <<sessionVars, pollVars>>
  \/ updateZip /\ burst' = NoBurst /\ UNCHANGED <<sessionVars, pollVars>>
  \/ updateURL /\ burst' = NoBurst /\ UNCHANGED <<sessionVars, pollVars>>
  \/ updateRepository /\ burst' = NoBurst /\ UNCHANGED <<sessionVars, pollVars>>
  \/ \E c \in InFlight, g \in Payloads :
       InitOpResolved(c, g) /\ burst' = NoBurst /\ UNCHANGED <<sessionVars, pollVars>>
  \/ \E c \in InFlight :
       RemoteCallRejected(c) /\ burst' = NoBurst /\ UNCHANGED <<sessionVars, pollVars>>

SpecConfig == Init /\ [][NextConfig]_vars

NextRoundTrip ==
  \/ \E f \in Fields : setter(f, SetValue) /\ UNCHANGED <<sessionVars, pollVars, configVars>>
  \/ getConfigXML /\ UNCHANGED <<sessionVars, pollVars, configVars>>
  \/ \E c \in InFlight, t \in RemoteTexts :
       GetConfigXmlResolved(c, t) /\ UNCHANGED <<sessionVars, pollVars, configVars>>
  \/ \E x \in Xmls : updateConfigXml(x) /\ UNCHANGED <<sessionVars, pollVars, configVars>>
  \/ \E c \in InFlight, g \in Payloads :
       UpdateConfigXmlResolved(c, g) /\ UNCHANGED <<sessionVars, pollVars, configVars>>
  \/ \E c \in InFlight :
       RemoteCallRejected(c) /\ UNCHANGED <<sessionVars, pollVars, configVars>>

SpecRoundTrip == Init /\ [][NextRoundTrip]_vars

\* The refresh() of the polling loop, as a call of Project.
PollRefresh == Call("refresh", "", 0, "")

\* Calls of the methods that end in init, answered or failing, and then, with
\* no call left in flight, one run of refreshUntilCompleted.
NextFailure ==
  \/ poll.pc = "idle" /\ refresh /\ UNCHANGED <<sessionVars, pollVars, configVars>>
  \/ poll.pc = "idle" /\ updateZip /\ UNCHANGED <<sessionVars, pollVars, configVars>>
  \/ poll.pc = "idle" /\ updateURL /\ UNCHANGED <<sessionVars, pollVars, configVars>>
  \/ poll.pc = "idle" /\ updateRepository /\ UNCHANGED <<sessionVars, pollVars, configVars>>
  \/ \E x \in Xmls :
       poll.pc = "idle" /\ updateConfigXml(x) /\ UNCHANGED <<sessionVars, pollVars, configVars>>
  \/ \E c \in InFlight, g \in Payloads :
       InitOpResolved(c, g) /\ UNCHANGED <<sessionVars, pollVars, configVars>>
  \/ \E c \in InFlight, g \in Payloads :
       UpdateConfigXmlResolved(c, g) /\ UNCHANGED <<sessionVars, pollVars, configVars>>
  \/ \E c \in InFlight :
       RemoteCallRejected(c) /\ UNCHANGED <<sessionVars, pollVars, configVars>>
  \/ \E i \in Intervals, w \in MaxWaitTimes :
       /\ task = EmptyBag
       /\ refreshUntilCompleted(i, w)
       /\ pev' = EventOf("call", PollRefresh, 0)
       /\ UNCHANGED <<sessionVars, task, configVars>>
  \/ \E d \in PollPayloads, l \in Latencies :
       /\ PollRefreshResolved(d, l)
       /\ pev' = EventOf("resolved", PollRefresh, 0)
       /\ UNCHANGED <<sessionVars, task, configVars>>
  \/ \E l \in Latencies :
       /\ PollRefreshRejected(l)
       /\ pev' = EventOf("rejected", PollRefresh, 0)
       /\ UNCHANGED <<sessionVars, task, configVars>>
  \/ \E j \in Jitters :
       /\ PollSleepElapsed(j)
       /\ pev' = EventOf("call", PollRefresh, 0)
       /\ UNCHANGED <<sessionVars, task, configVars>>

SpecFailure == Init /\ [][NextFailure]_vars

\* ------------------------------------------------------ session: the claims

\* C1: when the stored expiry instant is <= now, an authorized request starts
\* exactly one refreshAccess and sends nothing before it completes; the call
\* sent after a successful refresh carries the refreshed access token.
C1_RefreshThenSend ==
  /\ (last.kind = "request" /\ last.addCredentials /\ last.hadStore /\ last.expired)
       => (last.refreshes = 1 /\ last.header = <<>>)
  /\ (last.kind = "refreshed" /\ last.outcome = "ok")
       => last.header = <<last.issuedAccess>>

\* C2: no authorized call goes out with the access token of a store whose
\* expiry instant has passed when the bearer header is attached.
C2_NoStaleBearer ==
  last.header # <<>> => ~last.stale

\* C3: an authorized request made after closeAPIAccess, and before the next
\* setupAPIAccess call, fails with the unauthenticated error and sends nothing.
C3_ClosedIsUnauthenticated ==
  (last.kind = "request" /\ last.addCredentials /\ last.closed)
    => (last.result = "unauthenticated" /\ last.calls = 0)

\* C4: with no credential store installed, an authorized request fails with
\* the unauthenticated error, makes no network call (no refresh, no send) and
\* leaves the session state as it was.
C4_UnauthenticatedBeforeAnyCall ==
  [][ \A r \in Reqs :
        (credentials = <<>> /\ req[r] = "idle" /\ last'.kind = "request"
           /\ last'.r = r /\ last'.addCredentials)
        => /\ last'.result = "unauthenticated"
           /\ last'.calls = 0 /\ last'.refreshes = 0 /\ last'.header = <<>>
           /\ req'[r] = "idle"
           /\ credentials' = credentials /\ issued' = issued /\ closed' = closed
    ]_vars

C4_Witness ==
  /\ last.kind = "request" /\ last.addCredentials /\ ~last.hadStore
  /\ last.result = "unauthenticated" /\ credentials = <<>>

\* C5: when refreshAccess fails (a non-2xx answer or a transport error) the
\* failure reaches the caller, the original request is not sent and the stored
\* tokens and expiry are what they were before.
C5_FailedRefreshKeepsCredentials ==
  [][ (last'.kind = "refreshed" /\ last'.outcome \in {"non2xx", "neterr"})
        => /\ last'.result = "refreshFailed"
           /\ last'.header = <<>> /\ last'.calls = 0
           /\ credentials' = credentials
    ]_vars


\* ------------------------------------------------------ polling: the claims

C7_TicksUntilDeadline ==
  /\ poll.pc = "sleeping" => time < poll.limitTime
  /\ (poll.interval = 50 /\ poll.limitTime = 200 /\ poll.allCompiling
        /\ poll.onSchedule /\ poll.result # "error")
       => /\ poll.pc \in {"sleeping", "done"} => time = 50 * (poll.ticks - 1)
          /\ poll.pc = "refreshing" => time = 50 * poll.ticks
          /\ poll.pc = "done" => (poll.ticks >= 4 /\ time >= poll.limitTime)

C7_Witness ==
  /\ poll.interval = 50 /\ poll.limitTime = 200 /\ poll.allCompiling
  /\ poll.onSchedule /\ poll.pc = "done" /\ poll.result = "ok" /\ poll.ticks >= 4

\* C8: once a refresh yields a snapshot with no compilation Compiling or
\* Waiting, the call ends right after that refresh and its onTick: the counts
\* of refreshes and of ticks stay at that refresh's number and no sleep follows.
C8_StopsAtFirstIdleSnapshot ==
  poll.firstIdle # 0
    => /\ poll.pc = "done"
       /\ poll.refreshes = poll.firstIdle
       /\ poll.ticks = poll.firstIdle
       /\ poll.sleeps = poll.firstIdle - 1
       /\ ~isCompiling(proj.compilations)

C8_Witness ==
  /\ poll.firstIdle = 3 /\ poll.pc = "done" /\ poll.refreshes = 3 /\ poll.ticks = 3
  /\ time < poll.limitTime

\* ------------------------------------------------------ project: the claims

\* The snapshot a Project holds when all of it comes from payload g.
ScalarsFrom(g) ==
  /\ proj.id = ProjectId
  /\ proj.name = <<"title", g>>
  /\ proj.bundleID = <<"package", g>>
  /\ proj.version = <<"version", g>>
  /\ proj.sourceURL = <<"source", g>>
  /\ proj.origin = <<"origin", g>>
  /\ proj.dateCreated.time = 100 + g
  /\ proj.dateUpdated.time = 200 + g
  /\ proj.dateCompiled.time = 300 + g
  /\ proj.errors = <<"error", g>>

CompilationsFrom(g) ==
  /\ DOMAIN proj.compilations = DOMAIN StatusOf(g)
  /\ \A p \in DOMAIN proj.compilations :
       /\ proj.compilations[p].platform = p
       /\ proj.compilations[p].status = StatusOf(g)[p]

KeysFrom(g) ==
  /\ DOMAIN proj.keys = DOMAIN KeysOf(g)
  /\ \A p \in DOMAIN proj.keys :
       /\ proj.keys[p] # <<>>
       /\ proj.keys[p][1].id = KeysOf(g)[p]
       /\ proj.keys[p][1].platform = p

\* C9: when refresh() resolves, every scalar field and the whole compilations
\* and keys maps are those of the payload just fetched, with nothing left of
\* the snapshot before; and in every state, whatever calls are in flight, the
\* scalars and the compilations all come from one and the same payload.
C9_RefreshAtomicReplace ==
  /\ (pev.kind = "resolved" /\ pev.op = "refresh")
       => (ScalarsFrom(pev.gen) /\ CompilationsFrom(pev.gen) /\ KeysFrom(pev.gen))
  /\ \E g \in Payloads : ScalarsFrom(g) /\ CompilationsFrom(g)

C9_Witness ==
  /\ pev.kind = "resolved" /\ pev.op = "refresh" /\ pev.gen = 2
  /\ ScalarsFrom(2) /\ KeysFrom(2)
  /\ BagCardinality(task) > 0

\* C10: when the remote call of assignSigningKey succeeds, the slot of the
\* key's platform holds that key and the slots of the other platforms are as
\* they were; when it fails, and while it is awaited, the map is not touched.
C10_AssignSigningKey ==
  [][ pev'.op = "assignSigningKey"
        => /\ pev'.kind = "resolved"
                => /\ Slot(proj'.keys, pev'.platform)
                        = <<[id |-> pev'.keyId, platform |-> pev'.platform]>>
                   /\ \A p \in Platforms \ {pev'.platform} :
                        /\ p \in DOMAIN proj'.keys <=> p \in DOMAIN proj.keys
                        /\ Slot(proj'.keys, p) = Slot(proj.keys, p)
           /\ pev'.kind \in {"rejected", "call"} => proj' = proj
    ]_vars

C10_Witness ==
  /\ pev.kind = "resolved" /\ pev.op = "assignSigningKey"
  /\ Slot(proj.keys, pev.platform) = <<[id |-> pev.keyId, platform |-> pev.platform]>>
  /\ \E p \in Platforms \ {pev.platform} : Slot(proj.keys, p) # <<>>

\* C11: removeSigningKey(platform) called while the keys slot of the platform
\* holds no key (never assigned, or set to undefined by an earlier
\* removeSigningKey) throws the "no signing key" error, issues no remote call
\* and changes nothing of the project.
C11_RemoveAbsentKeyThrows ==
  [][ (pev'.op = "removeSigningKey" /\ pev'.kind \in {"call", "threw"}
         /\ Slot(proj.keys, pev'.platform) = <<>>)
        => /\ pev'.kind = "threw"
           /\ task' = task
           /\ proj' = proj /\ configXML' = configXML
    ]_vars

C11_Witness ==
  /\ pev.kind = "threw" /\ pev.op = "removeSigningKey"
  /\ pev.platform \in DOMAIN proj.keys
  /\ proj.keys[pev.platform] = <<>>

\* C13: isCompiling() is true exactly when some entry of the cached
\* compilations map is Compiling or Waiting: the polling loop sleeps on only
\* with such an entry in the snapshot just fetched, and when it leaves the loop
\* before the deadline every entry is Queued, Completed or Error (or the map is
\* empty). The snapshot read is the one the refresh stored; nothing is fetched
\* or changed by the test.
C13_IsCompilingIffCompilingOrWaiting ==
  /\ poll.pc = "sleeping"
       => \E p \in DOMAIN proj.compilations :
            proj.compilations[p].status \in {"compiling", "waiting"}
  /\ (poll.pc = "done" /\ poll.result # "error" /\ time < poll.limitTime)
       => \A p \in DOMAIN proj.compilations :
            proj.compilations[p].status \in {"queued", "completed", "error"}
  /\ (poll.pc = "done" /\ poll.result # "error"
        /\ \E p \in DOMAIN proj.compilations :
             proj.compilations[p].status \in {"compiling", "waiting"})
       => time >= poll.limitTime

C13_Witness ==
  /\ poll.pc = "done" /\ poll.result = "timeout" /\ poll.refreshes = 1
  /\ DOMAIN proj.compilations = Platforms
  /\ proj.compilations["android"].status = "queued"
  /\ proj.compilations["ios"].status = "error"

\* C14: checkAPIAccess() is false while no store is installed, true right
\* after setupAPIAccess with a non-empty access token and false right after one
\* with an empty token, whatever the expiration; it stays true while time
\* passes and requests come and go, also once the expiry instant has passed;
\* it is false right after closeAPIAccess.
C14_CheckAPIAccess ==
  [][ /\ credentials' = <<>> => ~checkAPIAccess'
      /\ last'.kind = "setup"
           => (checkAPIAccess' <=> credentials'[1].accessToken = "ua")
      /\ (checkAPIAccess /\ last'.kind \in {"none", "request", "response"})
           => checkAPIAccess'
      /\ last'.kind = "close" => ~checkAPIAccess'
    ]_vars

C14_Witness ==
  /\ checkAPIAccess /\ HasCredentials /\ Expired(Store)
  /\ Store.accessToken = "ua" /\ last.kind = "none"

\* C16: an authorized request that finds the stored expiry instant passed
\* while another call is in flight starts a refresh of its own (nothing makes
\* it wait for, or share, the other's); and whatever refreshes have completed,
\* the stored access and refresh tokens are the pair of one answer of the
\* authentication endpoint, the one handled last, never one token of each.
C16_RacingRefreshesLastWins ==
  /\ (last.kind = "request" /\ last.addCredentials /\ last.hadStore /\ last.expired
        /\ \E r2 \in Reqs \ {last.r} : req[r2] # "idle")
       => req[last.r] = "refreshing"
  /\ (last.kind = "refreshed" /\ last.outcome = "ok")
       => /\ Store.accessToken = last.issuedAccess
          /\ Store.refreshToken = SrvRefresh(issued)
  /\ HasCredentials
       => \A k \in 1..MaxIssued :
            (Store.accessToken = SrvAccess(k)) <=> (Store.refreshToken = SrvRefresh(k))

\* C18: from closeAPIAccess until the next setupAPIAccess call of the user,
\* checkAPIAccess() is false and no request goes out with a bearer header,
\* also when a refresh started before closeAPIAccess is answered after it.
C18_ClosedStaysClosed ==
  closed => /\ ~checkAPIAccess
            /\ last.kind \in {"request", "refreshed"} => last.header = <<>>

\* ------------------------------------------- config document: the claims

\* C12: once updateConfigXml(text) has resolved, the cache holds a document
\* built from text alone, with no edit of the document cached before, and its
\* text is text again; a getConfigXML() called next returns that document
\* without a fetch.
C12_UpdateConfigXmlRoundTrip ==
  [][ (pev.kind = "resolved" /\ pev.op = "updateConfigXml")
        => /\ configXML = <<XMLSugar(pev.xml)>>
           /\ xml(configXML[1]) = pev.xml
           /\ (pev'.op = "getConfigXML" /\ pev'.kind \in {"call", "cached"})
                => /\ pev'.kind = "cached"
                   /\ task' = task
                   /\ configXML' = configXML
    ]_vars

C12_Witness ==
  /\ pev.kind = "resolved" /\ pev.op = "updateConfigXml" /\ pev.xml = "xmlB"
  /\ configXML # <<>> /\ configXML[1].source = "xmlB" /\ configXML[1].edits = <<>>
  /\ Call("getConfigXML", "", 0, "") \in InFlight

\* C15: a call of a property setter assigns the field in the same step,
\* whether or not a document is cached; with a cached document that document
\* gets the edit and nothing is fetched, without one the fetch of config.xml
\* is started. When the fetch is answered the new document gets the edit; when
\* it fails the fields and the cache stay as they are.
C15_SetterWritesFieldAtOnce ==
  [][ /\ (pev'.op \in Fields /\ pev'.kind \in {"call", "cached"})
           => /\ proj' = [proj EXCEPT ![pev'.op] = SetValue]
              /\ IF configXML # <<>>
                 THEN /\ pev'.kind = "cached"
                      /\ task' = task
                      /\ configXML' = <<setField(configXML[1], pev'.op, SetValue)>>
                 ELSE /\ pev'.kind = "call"
                      /\ task' = task (+) SetToBag({Call(pev'.op, "", 0, "")})
                      /\ configXML' = <<>>
      /\ (pev'.op \in Fields /\ pev'.kind = "resolved")
           => /\ proj' = proj
              /\ configXML' # <<>>
              /\ FieldOf(configXML'[1], pev'.op) = SetValue
      /\ (pev'.op \in Fields /\ pev'.kind = "rejected")
           => (proj' = proj /\ configXML' = configXML)
    ]_vars

C15_Witness ==
  /\ pev.kind = "rejected" /\ pev.op = "name"
  /\ proj.name = SetValue /\ configXML = <<>>

\* C17: two setters of different fields called back to back, with nothing
\* cached and no call in flight before and no other step in between: once
\* both fetches have been answered the cached document shows both values.
C17_NoLostUpdate ==
  burst.stage = 4
    => /\ configXML # <<>>
       /\ FieldOf(configXML[1], burst.first) = SetValue
       /\ FieldOf(configXML[1], burst.second) = SetValue

\* C19: when refresh, updateZip, updateURL or updateRepository resolves, the
\* document cache is empty; a getConfigXML that finds it empty (the user's or a
\* setter's) starts a fetch, and the document cached when the fetch is
\* answered is built from the fetched text alone: it holds no earlier edit.
C19_InitEmptiesDocumentCache ==
  [][ /\ (pev'.kind = "resolved" /\ pev'.op \in InitOps) => configXML' = <<>>
      /\ (configXML = <<>> /\ pev'.op \in Getters /\ pev'.kind \in {"call", "cached"})
           => /\ pev'.kind = "call"
              /\ task' = task (+) SetToBag({Call(pev'.op, "", 0, "")})
      /\ (pev'.kind = "resolved" /\ pev'.op = "getConfigXML")
           => configXML' = <<XMLSugar(pev'.xml)>>
      /\ (pev'.kind = "resolved" /\ pev'.op \in Fields)
           => configXML' = <<setField(XMLSugar(pev'.xml), pev'.op, SetValue)>>
    ]_vars

C19_Witness ==
  /\ pev.kind = "resolved" /\ pev.op = "updateRepository" /\ pev.gen = 2
  /\ configXML = <<>>
  /\ Call("getConfigXML", "", 0, "") \in InFlight

\* C20: when the remote call of refresh, updateZip, updateURL,
\* updateRepository or updateConfigXml fails, the method throws and the fields,
\* the compilations, the keys and the cached document are what they were
\* before the step; when it is the refresh of refreshUntilCompleted, the run
\* ends with that error with no refresh or callback counted for it, and
\* nothing of the run happens afterwards.
C20_FailedRemoteCallChangesNothing ==
  [][ /\ (pev'.kind = "rejected" /\ pev'.op \in InitOps \cup {"updateConfigXml"})
           => (proj' = proj /\ configXML' = configXML)
      /\ (poll.pc = "refreshing" /\ pev'.kind = "rejected")
           => /\ poll'.pc = "done" /\ poll'.result = "error"
              /\ poll'.refreshes = poll.refreshes
              /\ poll'.ticks = poll.ticks
              /\ poll'.sleeps = poll.sleeps
      /\ (poll.pc = "done" /\ poll.result = "error")
           => (poll' = poll /\ proj' = proj /\ configXML' = configXML)
    ]_vars

C20_Witness ==
  /\ poll.pc = "done" /\ poll.result = "error" /\ poll.refreshes = 0
  /\ pev.kind = "rejected" /\ pev.op = "refresh"
  /\ configXML = <<XMLSugar("xmlB")>>
  /\ proj.name = <<"title", 3>>

====
